---- MODULE Spec2Model ----
(***************************************************************************)
(* A model of the DNS server core: the zone dispatcher of                  *)
(* dnsserver.Server (ServeDNS), its constructor (New), its listeners,      *)
(* address queries and shutdown (Stop), the deduplicating proxy client     *)
(* (proxy.Client) and the wire codec of the proxy (WriteMsg, ReadMsg).     *)
(*                                                                         *)
(* Names are sequences of one-character strings, so that the byte-wise     *)
(* loops of the code (lower-casing, dns.NextLabel) can be written as the   *)
(* code writes them.  Offsets are 0-based as in the Go code; the i-th byte *)
(* of s (0-based) is s[i+1].                                               *)
(***************************************************************************)
EXTENDS Integers, Sequences, FiniteSets, TLC

VARIABLES
    \* ---- dnsserver.Server, dispatch -------------------------------------
    zones,      \* s.zones: registry, a function from zone name to zone id
    req,        \* the query being (last) dispatched, or NoReq
    beh,        \* what the invoked chain did for it, or NoBeh
    invoked,    \* the zone ids whose chain ServeDNS invoked for req, in order
    written,    \* the responses written to w for req, in order
    alive,      \* FALSE once a fault has propagated out of ServeDNS
    faulted,    \* TRUE once a chain member has faulted in an earlier query
    \* ---- dnsserver.New --------------------------------------------------
    newArgs,    \* the call of New: whether made, and its configuration list
    newRet,     \* what New returned for it: [srv, err, zones]
    \* ---- dnsserver.Server, listeners and shutdown -----------------------
    goos,       \* runtime.GOOS: "posix" or "windows"
    dnsWg,      \* s.dnsWg: the counter of the wait group
    mu,         \* s.m: "free", or who holds it
    handle,     \* s.tcp and s.udp: "nil", "open" or "closed"
    server,     \* s.server[tcp], s.server[udp]: "nil", "serving" or "shutdown"
    lpc,        \* where the caller of Listen+Serve / ListenPacket+ServePacket is
    inflight,   \* connections accepted and not yet finished
    stopPc,     \* where each call of Stop is
    goPc,       \* where the goroutine of each call of Stop is
    elapsed,    \* whether the grace period of each call of Stop has elapsed
    crashed,    \* the process died of a fault in a goroutine
    addrPc,     \* where the caller of LocalAddr (tcp) / LocalAddrPacket (udp) is
    \* ---- proxy.Client --------------------------------------------------
    pool,       \* the pools of the upstream host, by transport
    cl,         \* the callers of Client.ServeDNS: where each is, what it holds
    group,      \* c.group: the calls in flight, by dedup key
    calls,      \* the call records of the group, in order of creation
                \* (owner is the caller that runs fn)
    msgs,       \* the messages ReadMsg allocated; a reply is an index into it
                \* (WireId keeps the ID the message arrived with)
    overflow,   \* the process died of a stack overflow in Read
    qtypes,     \* the question types of the queries the callers forward
    \* ---- proxy wire codec: WriteMsg, Write, ReadMsg, Read --------------
    ckind,      \* the connection co: "stream" (*net.TCPConn) or "datagram"
    wr,         \* the call of WriteMsg or Write: its argument and result
    sent,       \* the bytes written to co so far
    unread,     \* the bytes of the stream the reader has not yet consumed
    rd          \* the call of ReadMsg or Read: where it is and its result

dispatchVars == <<zones, req, beh, invoked, written, alive, faulted>>
newVars      == <<newArgs, newRet>>
stopVars     == <<goos, dnsWg, mu, handle, server, lpc, inflight, stopPc, goPc,
                  elapsed, crashed, addrPc>>
proxyVars    == <<pool, cl, group, calls, msgs, overflow, qtypes>>
codecVars    == <<ckind, wr, sent, unread, rd>>
vars         == <<zones, req, beh, invoked, written, alive, faulted, newArgs, newRet,
                  goos, dnsWg, mu, handle, server, lpc, inflight, stopPc, goPc,
                  elapsed, crashed, addrPc, pool, cl, group, calls, msgs, overflow, qtypes,
                  ckind, wr, sent, unread, rd>>

-----------------------------------------------------------------------------
(* Bounds of the model.                                                    *)

\* Longest query name, in labels.
MaxLabels == 3
\* Longest configuration list passed to New.
MaxConfigs == 3
\* Calls of Stop on one server.
MaxStops == 2
\* Connections in flight at once.
MaxConns == 2
\* Concurrent callers of the proxy client.
MaxCallers == 2

-----------------------------------------------------------------------------
(* Names.                                                                  *)

Dot == "."
Bsl == "\\"

\* The labels query names are built from: a lower-case and an upper-case
\* letter, a label that ends like another one, and a label holding an
\* escaped dot (a\.b), which is one label although it contains '.'.
QueryLabels == { <<"A">>, <<"b">>, <<"a", "b">>, <<"a", Bsl, Dot, "b">> }

\* The presentation form of a name given as a sequence of labels: each label
\* followed by a dot; the root is ".".
RECURSIVE Wire(_)
Wire(labels) ==
    IF labels = <<>> THEN <<Dot>>
    ELSE IF Len(labels) = 1 THEN Head(labels) \o <<Dot>>
    ELSE Head(labels) \o <<Dot>> \o Wire(Tail(labels))

RECURSIVE LabelSeqs(_)
LabelSeqs(n) ==
    IF n = 0 THEN { <<>> }
    ELSE LabelSeqs(n - 1) \cup
         { <<l>> \o t : l \in QueryLabels, t \in { s \in LabelSeqs(n - 1) : Len(s) = n - 1 } }

QueryNames == LabelSeqs(MaxLabels)

Root  == <<Dot>>
ZoneB  == <<"b", Dot>>
ZoneA  == <<"a", Dot>>
ZoneAB == <<"a", Dot, "b", Dot>>
\* The zone names a registry is drawn from: normalized (lower-case,
\* dot-terminated), the root, a zone, a zone below it and an unrelated one.
ZoneNames == { Root, ZoneB, ZoneAB, ZoneA }

TypeA  == "A"
TypeDS == "DS"
Qtypes == { TypeA, TypeDS }

RcodeSuccess        == "NOERROR"
RcodeFormatError    == "FORMERR"
RcodeServerFailure  == "SERVFAIL"
RcodeNameError      == "NXDOMAIN"
RcodeNotImplemented == "NOTIMP"
RcodeRefused        == "REFUSED"
RcodeBadVers        == "BADVERS"
Rcodes == { RcodeSuccess, RcodeFormatError, RcodeServerFailure,
            RcodeNameError, RcodeNotImplemented, RcodeRefused }

NoReq   == [none |-> TRUE]
NoBeh   == [none |-> TRUE]
NoMatch == <<>>
Panic   == "panic"

\* What a chain can do with a query: write a response of its own or not, and
\* then return a code or fault.
ChainBehaviours == [ wrote : BOOLEAN, outcome : Rcodes \cup { Panic } ]

Requests == [ name : QueryNames, qtype : Qtypes, ednsOK : BOOLEAN ]

-----------------------------------------------------------------------------
(* Server.ServeDNS.                                                        *)

\* b[i] |= ('a' - 'A') for b[i] in 'A'..'Z'
LowerByte(c) ==
    CASE c = "A" -> "a"
      [] c = "B" -> "b"
      [] OTHER   -> c

\* The scratch buffer b[:l] after the copy loop: q[off:] lower-cased.
LowerFrom(q, off) == [ i \in 1..(Len(q) - off) |-> LowerByte(q[off + i]) ]

\* dns.NextLabel(s, offset): the index of the start of the next label, and
\* whether the end of the name was reached.  A dot after a backslash is part
\* of the label.
RECURSIVE NextLabelScan(_, _, _)
NextLabelScan(s, i, quote) ==
    IF i >= Len(s) - 1 THEN [ off |-> i + 1, end |-> TRUE ]
    ELSE IF s[i + 1] = Bsl THEN NextLabelScan(s, i + 1, ~quote)
    ELSE IF s[i + 1] = Dot
         THEN IF quote THEN NextLabelScan(s, i + 1, FALSE)
              ELSE [ off |-> i + 1, end |-> FALSE ]
    ELSE NextLabelScan(s, i + 1, FALSE)

NextLabel(s, offset) == NextLabelScan(s, offset, FALSE)

\* The test of the loop body: the candidate is registered and the query is
\* not of the delegation-signer type.
MatchAt(zs, b, qtype) == b \in DOMAIN zs /\ qtype # TypeDS

\* Mutant of MatchLoop: the walk looks at every byte offset, not only at
\* label starts.
RECURSIVE MatchLoopEveryByte(_, _, _, _)
MatchLoopEveryByte(zs, q, qtype, off) ==
    IF MatchAt(zs, LowerFrom(q, off), qtype) THEN LowerFrom(q, off)
    ELSE IF off + 1 >= Len(q) THEN NoMatch
    ELSE MatchLoopEveryByte(zs, q, qtype, off + 1)

\* The for loop of ServeDNS: the registry key whose chain the loop invokes,
\* or NoMatch when the loop breaks at the end of the name.
RECURSIVE MatchLoop(_, _, _, _)
MatchLoop(zs, q, qtype, off) ==
    IF MatchAt(zs, LowerFrom(q, off), qtype) THEN LowerFrom(q, off)
    ELSE IF NextLabel(q, off).end THEN NoMatch
    ELSE MatchLoop(zs, q, qtype, NextLabel(q, off).off)

\* Mutant of RcodeNoClientWrite: the cases do not fall through.
RcodeNoClientWriteNoFallthrough(rcode) == rcode = RcodeNotImplemented

RcodeNoClientWrite(rcode) ==
    CASE rcode = RcodeServerFailure  -> TRUE
      [] rcode = RcodeRefused        -> TRUE
      [] rcode = RcodeFormatError    -> TRUE
      [] rcode = RcodeNotImplemented -> TRUE
      [] OTHER                       -> FALSE

\* DefaultErrorFunc(w, r, rcode): one response with rcode, written by the
\* dispatcher.
DefaultErrorFunc(w, rcode) == Append(w, [ by |-> "dispatcher", rcode |-> rcode ])

\* middleware.Edns0Version failing: the bad-version answer is written and
\* ServeDNS returns at once.
BadVersAnswer(w) == Append(w, [ by |-> "dispatcher", rcode |-> RcodeBadVers ])

\* Mutant of Recover: the deferred function is missing, the fault leaves
\* ServeDNS.
RecoverMissing(w, panicked) == [ written |-> w, alive |-> ~panicked ]

\* The deferred function of ServeDNS.
Recover(w, panicked) ==
    IF panicked THEN [ written |-> DefaultErrorFunc(w, RcodeServerFailure), alive |-> TRUE ]
    ELSE [ written |-> w, alive |-> TRUE ]

\* A response the chain wrote itself.
ChainAnswer == [ by |-> "chain", rcode |-> "own" ]

\* rcode, _ := h.stack.ServeDNS(ctx, w, r), then the dispatcher's error
\* write when RcodeNoClientWrite(rcode).  A chain that faults does not
\* return: what it wrote before stays written.
InvokeChain(zid, b) ==
    LET w1 == IF b.wrote THEN <<ChainAnswer>> ELSE <<>>
    IN  IF b.outcome = Panic
        THEN [ invoked |-> <<zid>>, written |-> w1, panicked |-> TRUE ]
        ELSE [ invoked |-> <<zid>>,
               written |-> IF RcodeNoClientWrite(b.outcome)
                           THEN DefaultErrorFunc(w1, b.outcome) ELSE w1,
               panicked |-> FALSE ]

\* Mutant of Fallback: the root entry is never tried.
FallbackNoRoot(zs, b) ==
    [ invoked |-> <<>>, written |-> DefaultErrorFunc(<<>>, RcodeRefused),
      panicked |-> FALSE ]

\* After the loop: the root zone as a last resort, else REFUSED.
Fallback(zs, b) ==
    IF Root \in DOMAIN zs THEN InvokeChain(zs[Root], b)
    ELSE [ invoked |-> <<>>, written |-> DefaultErrorFunc(<<>>, RcodeRefused),
           panicked |-> FALSE ]

\* The body of ServeDNS up to its return or fault.
ServeDNSBody(zs, r, b) ==
    IF ~r.ednsOK
    THEN [ invoked |-> <<>>, written |-> BadVersAnswer(<<>>), panicked |-> FALSE ]
    ELSE LET q == Wire(r.name)
             m == MatchLoop(zs, q, r.qtype, 0)
         IN  IF m # NoMatch THEN InvokeChain(zs[m], b)
             ELSE Fallback(zs, b)

\* ServeDNS with its deferred recovery.
ServeDNSResult(zs, r, b) ==
    LET body == ServeDNSBody(zs, r, b)
        rec  == Recover(body.written, body.panicked)
    IN  [ invoked |-> body.invoked, written |-> rec.written, alive |-> rec.alive,
          ran |-> body.invoked # <<>> ]

\* The server library hands one query to ServeDNS, which runs to its end.
ServeDNS ==
    /\ alive
    /\ req = NoReq
    /\ \E r \in Requests, b \in ChainBehaviours :
          LET res == ServeDNSResult(zones, r, b) IN
          /\ req' = r
          /\ beh' = IF res.ran THEN b ELSE NoBeh
          /\ invoked' = res.invoked
          /\ written' = res.written
          /\ alive' = res.alive
    /\ UNCHANGED <<zones, faulted>>
    /\ UNCHANGED <<newVars, stopVars, proxyVars, codecVars>>

\* The worker that ran ServeDNS ends; the server goes on to the next query.
WorkerDone ==
    /\ req # NoReq
    /\ req' = NoReq
    /\ beh' = NoBeh
    /\ invoked' = <<>>
    /\ written' = <<>>
    /\ faulted' = (faulted \/ (beh # NoBeh /\ beh.outcome = Panic))
    /\ UNCHANGED <<zones, alive>>
    /\ UNCHANGED <<newVars, stopVars, proxyVars, codecVars>>

-----------------------------------------------------------------------------
(* dnsserver.New.                                                          *)

\* The hosts configurations bind; one of them is also a meta-query alias.
Hosts == { "example.org.", "example.net.", "version.bind." }

\* The names New adds for a chain that holds the chaos middleware.
ChaosZones == { "authors.bind.", "version.bind.", "version.server.",
                "hostname.bind.", "id.server." }

\* A configuration, as far as New reads it: its host, and whether one of its
\* middlewares is chaos.Chaos.
Configs == [ Host : Hosts, chaos : BOOLEAN ]

RECURSIVE ConfigListsOfLen(_)
ConfigListsOfLen(n) ==
    IF n = 0 THEN { <<>> }
    ELSE { Append(l, c) : l \in ConfigListsOfLen(n - 1), c \in Configs }

ConfigLists == UNION { ConfigListsOfLen(n) : n \in 0..MaxConfigs }

NoArgs == [ called |-> FALSE, configs |-> << >> ]
NoRet  == [ srv |-> FALSE, err |-> FALSE, zones |-> <<>> ]

\* s.zones[k] = z
Put(zs, k, z) == [ x \in DOMAIN zs \cup { k } |-> IF x = k THEN z ELSE zs[x] ]

\* for _, ch := range []string{...} { s.zones[ch] = z }
PutAll(zs, ks, z) == [ x \in DOMAIN zs \cup ks |-> IF x \in ks THEN z ELSE zs[x] ]

\* Mutant of HostDefined: the duplicate test never fires.
HostDefinedNever(zs, host) == FALSE

\* _, exists := s.zones[conf.Host]
HostDefined(zs, host) == host \in DOMAIN zs

\* z := zone{config: conf}; z.buildStack()
BuildZone(conf) == [ config |-> conf ]

\* The loop of New over configs[i..], with the registry built so far.
RECURSIVE NewLoop(_, _, _)
NewLoop(configs, i, zs) ==
    IF i > Len(configs) THEN [ srv |-> TRUE, err |-> FALSE, zones |-> zs ]
    ELSE IF HostDefined(zs, configs[i].Host)
         THEN [ srv |-> FALSE, err |-> TRUE, zones |-> <<>> ]
    ELSE LET z   == BuildZone(configs[i])
             zs1 == Put(zs, configs[i].Host, z)
             zs2 == IF configs[i].chaos THEN PutAll(zs1, ChaosZones, z) ELSE zs1
         IN  NewLoop(configs, i + 1, zs2)

\* New(addr, configs, gracefulTimeout): the server (srv, with its registry)
\* or nil and an error.
NewResult(configs) == NewLoop(configs, 1, <<>>)

\* New is called with a configuration list.
New ==
    /\ ~newArgs.called
    /\ \E configs \in ConfigLists :
          /\ newArgs' = [ called |-> TRUE, configs |-> configs ]
          /\ newRet' = NewResult(configs)
    /\ UNCHANGED <<dispatchVars, stopVars, proxyVars, codecVars>>

\* The caller drops what New returned.
NewDiscard ==
    /\ newArgs.called
    /\ newArgs' = NoArgs
    /\ newRet' = NoRet
    /\ UNCHANGED <<dispatchVars, stopVars, proxyVars, codecVars>>

-----------------------------------------------------------------------------
(* Server.Listen, ListenPacket, Serve, ServePacket and Stop.               *)

Nets == { "tcp", "udp" }
NetOrder == << "tcp", "udp" >>
Stoppers == 1..MaxStops

\* The wait group as New leaves it: s.dnsWg.Add(1).
WgAfterNew == 1

\* Listen / ListenPacket: net.Listen succeeds and the handle is stored under
\* the lock.
Listen(n) ==
    /\ ~crashed
    /\ lpc[n] = "init"
    /\ mu = "free"
    /\ handle' = [ handle EXCEPT ![n] = "open" ]
    /\ lpc' = [ lpc EXCEPT ![n] = "bound" ]
    /\ UNCHANGED <<goos, dnsWg, mu, server, inflight, stopPc, goPc, elapsed, crashed>>
    /\ UNCHANGED <<addrPc, dispatchVars, newVars, proxyVars, codecVars>>

\* Listen / ListenPacket: net.Listen fails, nil and the error are returned.
ListenFails(n) ==
    /\ ~crashed
    /\ lpc[n] = "init"
    /\ lpc' = [ lpc EXCEPT ![n] = "failed" ]
    /\ UNCHANGED <<goos, dnsWg, mu, handle, server, inflight, stopPc, goPc, elapsed, crashed>>
    /\ UNCHANGED <<addrPc, dispatchVars, newVars, proxyVars, codecVars>>

\* Serve / ServePacket: s.server[n] is set under the lock, then
\* ActivateAndServe blocks until the server stops.
Serve(n) ==
    /\ ~crashed
    /\ lpc[n] = "bound"
    /\ mu = "free"
    /\ server' = [ server EXCEPT ![n] = "serving" ]
    /\ lpc' = [ lpc EXCEPT ![n] = "serving" ]
    /\ UNCHANGED <<goos, dnsWg, mu, handle, inflight, stopPc, goPc, elapsed, crashed>>
    /\ UNCHANGED <<addrPc, dispatchVars, newVars, proxyVars, codecVars>>

\* ActivateAndServe returns once the handle is closed or the server shut
\* down.
ServeReturns(n) ==
    /\ ~crashed
    /\ lpc[n] = "serving"
    /\ (handle[n] = "closed" \/ server[n] = "shutdown")
    /\ lpc' = [ lpc EXCEPT ![n] = "returned" ]
    /\ UNCHANGED <<goos, dnsWg, mu, handle, server, inflight, stopPc, goPc, elapsed, crashed>>
    /\ UNCHANGED <<addrPc, dispatchVars, newVars, proxyVars, codecVars>>

\* The server library accepts a connection (or a packet) and starts a worker
\* for it.  Nothing in the server adds it to s.dnsWg.
Accept(n) ==
    /\ ~crashed
    /\ lpc[n] = "serving" /\ server[n] = "serving" /\ handle[n] = "open"
    /\ inflight < MaxConns
    /\ inflight' = inflight + 1
    /\ UNCHANGED <<goos, dnsWg, mu, handle, server, lpc, stopPc, goPc, elapsed, crashed>>
    /\ UNCHANGED <<addrPc, dispatchVars, newVars, proxyVars, codecVars>>

\* A worker finishes its connection.
ConnDone ==
    /\ ~crashed
    /\ inflight > 0
    /\ inflight' = inflight - 1
    /\ UNCHANGED <<goos, dnsWg, mu, handle, server, lpc, stopPc, goPc, elapsed, crashed>>
    /\ UNCHANGED <<addrPc, dispatchVars, newVars, proxyVars, codecVars>>

\* Stop is called: off Windows it starts its goroutine and its timer and
\* goes to the select; on Windows it goes straight to closing.
StopCall(k) ==
    /\ ~crashed
    /\ stopPc[k] = "idle"
    /\ IF goos # "windows"
       THEN /\ stopPc' = [ stopPc EXCEPT ![k] = "select" ]
            /\ goPc' = [ goPc EXCEPT ![k] = "done" ]
       ELSE /\ stopPc' = [ stopPc EXCEPT ![k] = "close" ]
            /\ UNCHANGED goPc
    /\ UNCHANGED <<goos, dnsWg, mu, handle, server, lpc, inflight, elapsed, crashed>>
    /\ UNCHANGED <<addrPc, dispatchVars, newVars, proxyVars, codecVars>>

\* The goroutine: s.dnsWg.Done(), which takes one off the counter.  A
\* counter driven below zero is a fault in the goroutine, which ends the
\* process.
StopGoDone(k) ==
    /\ ~crashed
    /\ goPc[k] = "done"
    /\ dnsWg' = dnsWg - 1
    /\ IF dnsWg - 1 < 0
       THEN /\ crashed' = TRUE
            /\ goPc' = [ goPc EXCEPT ![k] = "faulted" ]
       ELSE /\ goPc' = [ goPc EXCEPT ![k] = "wait" ]
            /\ UNCHANGED crashed
    /\ UNCHANGED <<goos, mu, handle, server, lpc, inflight, stopPc, elapsed>>
    /\ UNCHANGED <<addrPc, dispatchVars, newVars, proxyVars, codecVars>>

\* s.dnsWg.Wait() returns when the counter is zero.
WaitPasses(wg) == wg = 0

\* The goroutine: s.dnsWg.Wait(), then close(done).
StopGoWait(k) ==
    /\ ~crashed
    /\ goPc[k] = "wait"
    /\ WaitPasses(dnsWg)
    /\ goPc' = [ goPc EXCEPT ![k] = "closed" ]
    /\ UNCHANGED <<goos, dnsWg, mu, handle, server, lpc, inflight, stopPc, elapsed, crashed>>
    /\ UNCHANGED <<addrPc, dispatchVars, newVars, proxyVars, codecVars>>

\* time.After(s.connTimeout) fires: the grace period has elapsed.
TimerFires(k) ==
    /\ ~crashed
    /\ stopPc[k] = "select"
    /\ ~elapsed[k]
    /\ elapsed' = [ elapsed EXCEPT ![k] = TRUE ]
    /\ UNCHANGED <<goos, dnsWg, mu, handle, server, lpc, inflight, stopPc, goPc, crashed>>
    /\ UNCHANGED <<addrPc, dispatchVars, newVars, proxyVars, codecVars>>

\* The select of Stop: the timer or the done channel.
StopSelect(k) ==
    /\ ~crashed
    /\ stopPc[k] = "select"
    /\ (elapsed[k] \/ goPc[k] = "closed")
    /\ stopPc' = [ stopPc EXCEPT ![k] = "close" ]
    /\ UNCHANGED <<goos, dnsWg, mu, handle, server, lpc, inflight, goPc, elapsed, crashed>>
    /\ UNCHANGED <<addrPc, dispatchVars, newVars, proxyVars, codecVars>>

\* for _, s1 := range s.server { err = s1.Shutdown() }: the servers after
\* the loop, and whether it faulted on a nil entry.
RECURSIVE ShutdownLoop(_, _)
ShutdownLoop(srv, i) ==
    IF i > Len(NetOrder) THEN [ server |-> srv, faulted |-> FALSE ]
    ELSE IF srv[NetOrder[i]] = "nil" THEN [ server |-> srv, faulted |-> TRUE ]
    ELSE ShutdownLoop([ srv EXCEPT ![NetOrder[i]] = "shutdown" ], i + 1)

\* The end of Stop: under the lock, the handles that are set are closed and
\* the servers shut down; the lock is released after the loop.
StopClose(k) ==
    /\ ~crashed
    /\ stopPc[k] = "close"
    /\ mu = "free"
    /\ handle' = [ n \in Nets |-> IF handle[n] # "nil" THEN "closed" ELSE "nil" ]
    /\ LET r == ShutdownLoop(server, 1) IN
          /\ server' = r.server
          /\ IF r.faulted
             THEN /\ mu' = "stop"
                  /\ stopPc' = [ stopPc EXCEPT ![k] = "faulted" ]
             ELSE /\ mu' = "free"
                  /\ stopPc' = [ stopPc EXCEPT ![k] = "returned" ]
    /\ UNCHANGED <<goos, dnsWg, lpc, inflight, goPc, elapsed, crashed>>
    /\ UNCHANGED <<addrPc, dispatchVars, newVars, proxyVars, codecVars>>

\* Who holds s.m while LocalAddr (tcp) or LocalAddrPacket (udp) runs.
AddrHolder == [ n \in Nets |-> IF n = "tcp" THEN "LocalAddr" ELSE "LocalAddrPacket" ]

\* LocalAddr / LocalAddrPacket: s.m.Lock().
AddrLock(n) ==
    /\ ~crashed
    /\ addrPc[n] = "idle"
    /\ mu = "free"
    /\ mu' = AddrHolder[n]
    /\ addrPc' = [ addrPc EXCEPT ![n] = "locked" ]
    /\ UNCHANGED <<goos, dnsWg, handle, server, lpc, inflight, stopPc, goPc, elapsed, crashed>>
    /\ UNCHANGED <<dispatchVars, newVars, proxyVars, codecVars>>

\* LocalAddr: return s.tcp.Addr(), then the deferred s.m.Unlock().  On a nil
\* handle the call faults, and the deferred Unlock runs all the same.
LocalAddr ==
    /\ ~crashed
    /\ addrPc["tcp"] = "locked"
    /\ addrPc' = [ addrPc EXCEPT !["tcp"] =
                     IF handle["tcp"] = "nil" THEN "faulted" ELSE "returned" ]
    /\ mu' = "free"
    /\ UNCHANGED <<goos, dnsWg, handle, server, lpc, inflight, stopPc, goPc, elapsed, crashed>>
    /\ UNCHANGED <<dispatchVars, newVars, proxyVars, codecVars>>

\* LocalAddrPacket: return s.udp.LocalAddr(), then the deferred s.m.Lock():
\* the mutex is held by this very call, so the deferred Lock never returns
\* and the mutex stays held.
LocalAddrPacket ==
    /\ ~crashed
    /\ addrPc["udp"] = "locked"
    /\ addrPc' = [ addrPc EXCEPT !["udp"] = "blocked" ]
    /\ UNCHANGED <<goos, dnsWg, mu, handle, server, lpc, inflight, stopPc, goPc, elapsed,
                   crashed>>
    /\ UNCHANGED <<dispatchVars, newVars, proxyVars, codecVars>>

-----------------------------------------------------------------------------
(* proxy.Client: ServeDNS, Exchange, exchange.                             *)

Callers == 1..MaxCallers
Protos  == { "tcp", "udp" }

\* The names, types and classes of the questions forwarded.
ProxyNames   == { "example.org.", "Example.org." }
ProxyQtypes  == { "TypeA" }

\* Two question types of the private-use range, which dns.TypeToString does
\* not hold.
UnknownQtypes == { "TYPE65280", "TYPE65281" }
ProxyClasses == { "ClassINET" }

\* dns.TypeToString and dns.ClassToString, on the types and classes above.
TypeToString  == [ t \in { "TypeA" } |-> "A" ]
ClassToString == [ k \in { "ClassINET" } |-> "IN" ]

\* The request of caller c carries the transaction ID c: callers differ in
\* their IDs.
ProxyRequests(c) ==
    [ Id : { c }, name : ProxyNames, qtype : qtypes, qclass : ProxyClasses,
      proto : Protos ]

NilMsg == 0
NoErr  == "nil"

NoCall == [ pc |-> "idle", r |-> [ none |-> TRUE ], co |-> "none", call |-> 0,
            val |-> NilMsg, err |-> NoErr, reply |-> NilMsg, reterr |-> NoErr,
            seen |-> 0 ]

\* Mutant of DedupKey: the transaction ID is part of the key.
DedupKeyWithId(m) ==
    ToString(m.Id) \o m.name
        \o (IF m.qtype \in DOMAIN TypeToString THEN TypeToString[m.qtype] ELSE "nop")
        \o (IF m.qclass \in DOMAIN ClassToString THEN ClassToString[m.qclass] ELSE "nop")

\* m.Question[0].Name+t+cl
DedupKey(m) ==
    m.name
        \o (IF m.qtype \in DOMAIN TypeToString THEN TypeToString[m.qtype] ELSE "nop")
        \o (IF m.qclass \in DOMAIN ClassToString THEN ClassToString[m.qclass] ELSE "nop")

\* Client.ServeDNS, lines 36-42: a connection is taken from the pool of the
\* request's transport; the error of Get is dropped, so co is nil when the
\* pool could not dial.
PoolGet(c) ==
    /\ ~overflow
    /\ cl[c].pc = "idle"
    /\ \E r \in ProxyRequests(c), dialed \in BOOLEAN :
          LET p == pool[r.proto] IN
          /\ pool' = [ pool EXCEPT ![r.proto] =
                          IF p.idle > 0
                          THEN [ p EXCEPT !.idle = p.idle - 1, !.out = p.out + 1 ]
                          ELSE IF dialed THEN [ p EXCEPT !.out = p.out + 1 ] ELSE p ]
          /\ cl' = [ cl EXCEPT ![c] =
                        [ @ EXCEPT !.pc = "got", !.r = r,
                                   !.co = IF p.idle > 0 \/ dialed THEN p.kind ELSE "nil" ] ]
    /\ UNCHANGED <<group, calls, msgs, overflow>>
    /\ UNCHANGED <<qtypes, dispatchVars, newVars, stopVars, codecVars>>

\* singleflight Group.Do, under its lock: a caller whose key is in flight
\* waits on that call; otherwise it creates the call and runs fn itself.
DoEnter(c) ==
    /\ ~overflow
    /\ cl[c].pc = "got"
    /\ LET key == DedupKey(cl[c].r) IN
          IF key \in DOMAIN group
          THEN /\ cl' = [ cl EXCEPT ![c] = [ @ EXCEPT !.pc = "wait", !.call = group[key] ] ]
               /\ UNCHANGED <<group, calls>>
          ELSE /\ calls' = Append(calls, [ key |-> key, owner |-> c, done |-> FALSE,
                                           val |-> NilMsg, err |-> NoErr ])
               /\ group' = [ k \in DOMAIN group \cup { key } |->
                               IF k = key THEN Len(calls) + 1 ELSE group[k] ]
               /\ cl' = [ cl EXCEPT ![c] = [ @ EXCEPT !.pc = "write", !.call = Len(calls) + 1 ] ]
    /\ UNCHANGED <<pool, msgs, overflow>>
    /\ UNCHANGED <<qtypes, dispatchVars, newVars, stopVars, codecVars>>

\* fn has returned (ret, e): the call records it and releases its waiters.
CallDone(cs, i, val, err) ==
    [ cs EXCEPT ![i] = [ @ EXCEPT !.done = TRUE, !.val = val, !.err = err ] ]

\* Client.exchange, lines 84-94: the deadline is set on co and the request
\* written.  A nil co faults at co.SetWriteDeadline; the fault leaves Do
\* with the call never completed.
ExecWrite(c) ==
    /\ ~overflow
    /\ cl[c].pc = "write"
    /\ \/ /\ cl[c].co = "nil"
          /\ cl' = [ cl EXCEPT ![c] = [ @ EXCEPT !.pc = "faulted" ] ]
          /\ UNCHANGED calls
       \/ /\ cl[c].co # "nil"
          /\ \E ok \in BOOLEAN :
                IF ok
                THEN /\ cl' = [ cl EXCEPT ![c] = [ @ EXCEPT !.pc = "read" ] ]
                     /\ UNCHANGED calls
                ELSE /\ calls' = CallDone(calls, cl[c].call, NilMsg, "write")
                     /\ cl' = [ cl EXCEPT ![c] =
                                  [ @ EXCEPT !.pc = "delete", !.val = NilMsg, !.err = "write" ] ]
    /\ UNCHANGED <<pool, group, msgs, overflow>>
    /\ UNCHANGED <<qtypes, dispatchVars, newVars, stopVars, codecVars>>

\* What ReadMsg can return on a stream connection for a request with
\* transaction ID id: an error with no message; a message with any ID and
\* truncation flag; or a truncated message that Unpack reports as
\* ErrTruncated.
ReadOutcomes(id) ==
    { [ got |-> FALSE, Id |-> 0, Truncated |-> FALSE, err |-> "read" ] }
    \cup [ got : { TRUE }, Id : { id, id + MaxCallers }, Truncated : BOOLEAN, err : { NoErr } ]
    \cup [ got : { TRUE }, Id : { id, id + MaxCallers }, Truncated : { TRUE },
           err : { "ErrTruncated" } ]

\* Client.exchange, lines 98-100.
CheckId(err, rid, mid) == IF err = NoErr /\ rid # mid THEN "ErrId" ELSE err

\* Client.exchange, lines 96-102, on a stream connection: the reply is read
\* and its ID checked; fn returns and the call is completed.
ExecRead(c) ==
    /\ ~overflow
    /\ cl[c].pc = "read"
    /\ cl[c].co = "stream"
    /\ \E o \in ReadOutcomes(cl[c].r.Id) :
          LET val == IF o.got THEN Len(msgs) + 1 ELSE NilMsg
              err == IF o.got THEN CheckId(o.err, o.Id, cl[c].r.Id) ELSE o.err
          IN  /\ msgs' = IF o.got
                         THEN Append(msgs, [ Id |-> o.Id, Truncated |-> o.Truncated,
                                             Compress |-> FALSE, WireId |-> o.Id ])
                         ELSE msgs
              /\ calls' = CallDone(calls, cl[c].call, val, err)
              /\ cl' = [ cl EXCEPT ![c] = [ @ EXCEPT !.pc = "delete", !.val = val, !.err = err ] ]
    /\ UNCHANGED <<pool, group, overflow>>
    /\ UNCHANGED <<qtypes, dispatchVars, newVars, stopVars, codecVars>>

\* Read on a connection that is neither *net.TCPConn nor *tls.Conn calls
\* itself with the same arguments: the stack overflows.
ExecReadOther(c) ==
    /\ ~overflow
    /\ cl[c].pc = "read"
    /\ cl[c].co = "other"
    /\ overflow' = TRUE
    /\ UNCHANGED <<pool, cl, group, calls, msgs>>
    /\ UNCHANGED <<qtypes, dispatchVars, newVars, stopVars, codecVars>>

\* Group.Do, after fn: the key is deleted and (c.val, c.err) returned.
ExecDelete(c) ==
    /\ ~overflow
    /\ cl[c].pc = "delete"
    /\ group' = [ k \in DOMAIN group \ { calls[cl[c].call].key } |-> group[k] ]
    /\ cl' = [ cl EXCEPT ![c] = [ @ EXCEPT !.pc = "post" ] ]
    /\ UNCHANGED <<pool, calls, msgs, overflow>>
    /\ UNCHANGED <<qtypes, dispatchVars, newVars, stopVars, codecVars>>

\* Group.Do, a waiter: c.wg.Wait() returns once the call is done, and the
\* waiter returns (c.val, c.err).
WaitDone(c) ==
    /\ ~overflow
    /\ cl[c].pc = "wait"
    /\ calls[cl[c].call].done
    /\ cl' = [ cl EXCEPT ![c] = [ @ EXCEPT !.pc = "post", !.val = calls[cl[c].call].val,
                                           !.err = calls[cl[c].call].err ] ]
    /\ UNCHANGED <<pool, group, calls, msgs, overflow>>
    /\ UNCHANGED <<qtypes, dispatchVars, newVars, stopVars, codecVars>>

\* Mutant of SuppressTruncated: no error is cleared.
SuppressNever(ms, reply, err) == err

\* Client.ServeDNS, lines 46-49.
SuppressTruncated(ms, reply, err) ==
    IF reply # NilMsg /\ ms[reply].Truncated THEN NoErr ELSE err

\* Client.ServeDNS, lines 44-57, after Exchange returned: a truncated reply
\* clears the error; an error returns no reply; otherwise the reply is marked
\* compressible, given the request's ID and returned.
Post(c) ==
    /\ ~overflow
    /\ cl[c].pc = "post"
    /\ LET reply == cl[c].val
           err   == SuppressTruncated(msgs, reply, cl[c].err)
       IN  IF err # NoErr
           THEN /\ cl' = [ cl EXCEPT ![c] =
                             [ @ EXCEPT !.pc = "returned", !.reply = NilMsg, !.reterr = err ] ]
                /\ UNCHANGED msgs
           ELSE /\ msgs' = [ msgs EXCEPT ![reply] =
                               [ @ EXCEPT !.Compress = TRUE, !.Id = cl[c].r.Id ] ]
                /\ cl' = [ cl EXCEPT ![c] =
                             [ @ EXCEPT !.pc = "returned", !.reply = reply, !.reterr = NoErr ] ]
    /\ UNCHANGED <<pool, group, calls, overflow>>
    /\ UNCHANGED <<qtypes, dispatchVars, newVars, stopVars, codecVars>>

\* The caller of ServeDNS reads the ID of the reply it was returned.
UseReply(c) ==
    /\ ~overflow
    /\ cl[c].pc = "returned"
    /\ cl[c].reply # NilMsg
    /\ cl' = [ cl EXCEPT ![c] = [ @ EXCEPT !.pc = "used", !.seen = msgs[cl[c].reply].Id ] ]
    /\ UNCHANGED <<pool, group, calls, msgs, overflow>>
    /\ UNCHANGED <<qtypes, dispatchVars, newVars, stopVars, codecVars>>

-----------------------------------------------------------------------------
(* The wire codec of the proxy: WriteMsg, Write, ReadMsg, readMsgHeader,   *)
(* tcpMsgLen, tcpRead and Read.                                            *)
(*                                                                         *)
(* A byte slice is a sequence of runs [b, n]: n > 0 bytes of value b, no   *)
(* two neighbouring runs of the same value, so that equal slices are equal *)
(* sequences and a slice of 65536 bytes is as small as one of 12.          *)

\* dns.MaxMsgSize, dns.MinMsgSize and the size of a message header.
MaxMsgSize == 65535
MinMsgSize == 512
HeaderSize == 12

Run(b, n) == IF n = 0 THEN << >> ELSE << [ b |-> b, n |-> n ] >>

\* append(s, t...)
BCat(s, t) ==
    IF s = << >> THEN t
    ELSE IF t = << >> THEN s
    ELSE IF s[Len(s)].b = t[1].b
         THEN SubSeq(s, 1, Len(s) - 1)
                \o << [ b |-> t[1].b, n |-> s[Len(s)].n + t[1].n ] >>
                \o Tail(t)
         ELSE s \o t

\* len(s)
RECURSIVE BLen(_)
BLen(s) == IF s = << >> THEN 0 ELSE s[1].n + BLen(Tail(s))

\* s[:k]
RECURSIVE BTake(_, _)
BTake(s, k) ==
    IF k = 0 \/ s = << >> THEN << >>
    ELSE IF s[1].n <= k THEN << s[1] >> \o BTake(Tail(s), k - s[1].n)
    ELSE << [ b |-> s[1].b, n |-> k ] >>

\* s[k:]
RECURSIVE BDrop(_, _)
BDrop(s, k) ==
    IF k = 0 \/ s = << >> THEN s
    ELSE IF s[1].n <= k THEN BDrop(Tail(s), k - s[1].n)
    ELSE << [ b |-> s[1].b, n |-> s[1].n - k ] >> \o Tail(s)

\* s[i-1], the i-th byte of s.
RECURSIVE BAt(_, _)
BAt(s, i) == IF i <= s[1].n THEN s[1].b ELSE BAt(Tail(s), i - s[1].n)

\* binary.BigEndian.Uint16(p)
Uint16(s) == 256 * BAt(s, 1) + BAt(s, 2)

\* binary.BigEndian.PutUint16(l, uint16(v))
PutUint16(v) == BCat(Run((v % 65536) \div 256, 1), Run(v % 256, 1))

\* The messages written: a transaction ID and the number of bytes that
\* follow the header.  The largest packs into MaxMsgSize + 1 bytes.
MsgIds == { 1, 14 }
BodySizes == { 0, 2, MaxMsgSize + 1 - HeaderSize }
Msgs == [ Id : MsgIds, body : BodySizes ]

\* m.Pack(): the ID in the first two bytes, the other ten bytes of the
\* header, then the body.
Pack(m) == BCat(PutUint16(m.Id), BCat(Run(1, HeaderSize - 2), Run(2, m.body)))

\* The buffers handed to Write: packed messages and a buffer of one byte.
Payloads == { Pack(m) : m \in Msgs } \cup { Run(9, 1) }

\* The udpsize handed to ReadMsg and the len(p) handed to Read.
UdpSizes == { MinMsgSize, 4096 }
BufLens == { 1, MinMsgSize }

NoWrite == [ pc |-> "idle", op |-> "none", out |-> << >>, n |-> 0, err |-> NoErr ]
NoRead  == [ pc |-> "idle", entry |-> "none", cap |-> 0, l |-> 0, n |-> 0, got |-> << >>,
             ret |-> << >>, err |-> NoErr, depth |-> 0, recv |-> 0 ]

\* co.Write(b) on the connection: it fails, or the bytes are written.  A
\* datagram longer than MaxMsgSize cannot be sent.
ConnWrite(kind, b, ok) ==
    IF ~ok THEN [ n |-> 0, err |-> "write", put |-> << >> ]
    ELSE IF kind = "datagram" /\ BLen(b) > MaxMsgSize
         THEN [ n |-> 0, err |-> "EMSGSIZE", put |-> << >> ]
         ELSE [ n |-> BLen(b), err |-> NoErr, put |-> b ]

\* WriteMsg: out, err := m.Pack(); co.Write(out).
WriteMsg ==
    /\ wr.pc = "idle"
    /\ \E m \in Msgs, packs \in BOOLEAN, ok \in BOOLEAN :
          IF ~packs
          THEN /\ wr' = [ pc |-> "done", op |-> "WriteMsg", out |-> << >>, n |-> 0,
                          err |-> "pack" ]
               /\ UNCHANGED <<sent, unread>>
          ELSE LET w == ConnWrite(ckind, Pack(m), ok) IN
               /\ wr' = [ pc |-> "done", op |-> "WriteMsg", out |-> Pack(m), n |-> w.n,
                          err |-> w.err ]
               /\ sent' = BCat(sent, w.put)
               /\ unread' = BCat(unread, w.put)
    /\ UNCHANGED <<ckind, rd>>
    /\ UNCHANGED <<dispatchVars, newVars, stopVars, proxyVars>>

\* Write: on a stream connection the length checks, the 2-byte prefix and
\* io.Copy; on any other connection co.(*net.UDPConn).Write(p).
Write ==
    /\ wr.pc = "idle"
    /\ \E p \in Payloads, ok \in BOOLEAN :
          LET lp == BLen(p)
              w  == IF ckind = "stream"
                    THEN IF lp < 2
                         THEN [ n |-> 0, err |-> "ErrShortBuffer", put |-> << >> ]
                         ELSE IF lp > MaxMsgSize
                         THEN [ n |-> 0, err |-> "message too large", put |-> << >> ]
                         ELSE ConnWrite(ckind, BCat(PutUint16(lp), p), ok)
                    ELSE ConnWrite(ckind, p, ok)
          IN  /\ wr' = [ pc |-> "done", op |-> "Write", out |-> p, n |-> w.n, err |-> w.err ]
              /\ sent' = BCat(sent, w.put)
              /\ unread' = BCat(unread, w.put)
    /\ UNCHANGED <<ckind, rd>>
    /\ UNCHANGED <<dispatchVars, newVars, stopVars, proxyVars>>

\* ReadMsg calls readMsgHeader(co, nil, udpsize): on a stream connection it
\* goes on to tcpMsgLen; on any other it makes a buffer of
\* max(udpsize, MinMsgSize) bytes and calls Read(co, p).
ReadMsg ==
    /\ rd.pc = "idle"
    /\ \E udpsize \in UdpSizes :
          rd' = IF ckind = "stream"
                THEN [ rd EXCEPT !.pc = "len", !.entry = "ReadMsg" ]
                ELSE [ rd EXCEPT !.pc = "Read", !.entry = "ReadMsg", !.depth = 1,
                                 !.cap = IF udpsize > MinMsgSize THEN udpsize
                                         ELSE MinMsgSize ]
    /\ UNCHANGED <<ckind, wr, sent, unread>>
    /\ UNCHANGED <<dispatchVars, newVars, stopVars, proxyVars>>

\* Read(co, p) called on its own, with a buffer of len(p) bytes.
ReadCall ==
    /\ rd.pc = "idle"
    /\ \E lp \in BufLens :
          rd' = [ rd EXCEPT !.pc = "Read", !.entry = "Read", !.depth = 1, !.cap = lp ]
    /\ UNCHANGED <<ckind, wr, sent, unread>>
    /\ UNCHANGED <<dispatchVars, newVars, stopVars, proxyVars>>

\* The depth of calls at which the stack of a goroutine is exhausted.
MaxStack == 3

\* The body of Read: the buffer check; on a stream connection tcpMsgLen; on
\* any other connection Read calls Read(co, p) with the arguments it was
\* given, without having received anything.
Read ==
    /\ rd.pc = "Read"
    /\ rd' = IF rd.cap < 2
             THEN [ rd EXCEPT !.pc = "done", !.n = 0, !.err = "ErrShortBuffer" ]
             ELSE IF ckind = "stream"
             THEN [ rd EXCEPT !.pc = "len" ]
             ELSE IF rd.depth < MaxStack
             THEN [ rd EXCEPT !.depth = rd.depth + 1 ]
             ELSE [ rd EXCEPT !.pc = "overflow" ]
    /\ UNCHANGED <<ckind, wr, sent, unread>>
    /\ UNCHANGED <<dispatchVars, newVars, stopVars, proxyVars>>

\* What t.Read(buf) can return for a buffer of want bytes when avail bytes
\* are there to be read: any part of them, at least one byte.
Chunks(want, avail) ==
    LET m == IF want < avail THEN want ELSE avail
    IN  { j \in { 1, 2, HeaderSize, m } : j <= m }

\* tcpMsgLen: one Read into a buffer of two bytes.  An error of the Read, a
\* Read of one byte or a length of zero is an error; otherwise the length.
\* In readMsgHeader the buffer is then made of l bytes; in Read a length
\* above len(p) is ErrShortBuffer and the buffer is p[:l].
tcpMsgLen ==
    /\ rd.pc = "len"
    /\ \/ /\ rd' = [ rd EXCEPT !.pc = "done", !.n = 0, !.err = "read" ]
          /\ UNCHANGED unread
       \/ \E j \in Chunks(2, BLen(unread)) :
             /\ unread' = BDrop(unread, j)
             /\ rd' = IF j # 2 \/ Uint16(unread) = 0
                      THEN [ rd EXCEPT !.pc = "done", !.n = 0, !.err = "ErrShortRead" ]
                      ELSE LET l == Uint16(unread) IN
                           IF rd.entry = "Read" /\ l > rd.cap
                           THEN [ rd EXCEPT !.pc = "done", !.l = l, !.n = l,
                                            !.err = "ErrShortBuffer" ]
                           ELSE [ rd EXCEPT !.pc = "body", !.l = l, !.cap = l ]
    /\ UNCHANGED <<ckind, wr, sent>>
    /\ UNCHANGED <<dispatchVars, newVars, stopVars, proxyVars>>

\* What the caller of tcpRead makes of its result (n, err).  readMsgHeader
\* assigns the error to the err its case clause declared with
\* l, err := tcpMsgLen(r), so the err it tests after the switch is still nil:
\* fewer than HeaderSize bytes are ErrShortRead, otherwise p[:n] is returned
\* without an error.  Read returns (n, err) as they are.
AfterTcpRead(r, n, got, err) ==
    IF r.entry = "ReadMsg"
    THEN IF n < HeaderSize
         THEN [ r EXCEPT !.pc = "done", !.n = n, !.got = got, !.err = "ErrShortRead" ]
         ELSE [ r EXCEPT !.pc = "done", !.n = n, !.got = got, !.ret = BTake(got, n),
                         !.err = NoErr ]
    ELSE [ r EXCEPT !.pc = "done", !.n = n, !.got = got,
                    !.ret = IF err = NoErr THEN got ELSE << >>, !.err = err ]

\* tcpRead: one Read of the loop that fills the buffer.  An error of the
\* Read ends it with the bytes collected so far; it ends without an error
\* when the buffer is full.
tcpRead ==
    /\ rd.pc = "body"
    /\ \/ /\ rd' = AfterTcpRead(rd, rd.n, rd.got, "read")
          /\ UNCHANGED unread
       \/ \E j \in Chunks(rd.cap - rd.n, BLen(unread)) :
             LET n   == rd.n + j
                 got == BCat(rd.got, BTake(unread, j))
             IN  /\ unread' = BDrop(unread, j)
                 /\ rd' = IF n < rd.cap
                          THEN [ rd EXCEPT !.n = n, !.got = got ]
                          ELSE AfterTcpRead(rd, n, got, NoErr)
    /\ UNCHANGED <<ckind, wr, sent>>
    /\ UNCHANGED <<dispatchVars, newVars, stopVars, proxyVars>>

-----------------------------------------------------------------------------
(* Specifications.                                                         *)

Registries == { [ z \in S |-> z ] : S \in SUBSET ZoneNames }

InitDispatchIdle ==
    /\ zones = << >>
    /\ req = NoReq
    /\ beh = NoBeh
    /\ invoked = <<>>
    /\ written = <<>>
    /\ alive = TRUE
    /\ faulted = FALSE

InitNewIdle == newArgs = NoArgs /\ newRet = NoRet

\* The listeners and the shutdown state of a server New has just returned.
InitStopWith(os) ==
    /\ goos \in os
    /\ dnsWg = WgAfterNew
    /\ mu = "free"
    /\ handle = [ n \in Nets |-> "nil" ]
    /\ server = [ n \in Nets |-> "nil" ]
    /\ lpc = [ n \in Nets |-> "init" ]
    /\ inflight = 0
    /\ stopPc = [ k \in Stoppers |-> "idle" ]
    /\ goPc = [ k \in Stoppers |-> "none" ]
    /\ elapsed = [ k \in Stoppers |-> FALSE ]
    /\ crashed = FALSE
    /\ addrPc = [ n \in Nets |-> "idle" ]

InitStopIdle == InitStopWith({ "posix" })

\* NewTCPPool opens 1 connection, NewUDPPool 2.
TCPInitial == 1
UDPInitial == 2

\* The network each constructor hands to net.DialTimeout.
NewTCPPoolNetwork == "udp"
NewUDPPoolNetwork == "udp"

\* What net.DialTimeout returns for a network: a *net.TCPConn for "tcp"
\* (a stream connection), a *net.UDPConn otherwise.
ConnKind(network) == IF network = "tcp" THEN "stream" ELSE "other"

\* A client with no call in flight, and the pools of its upstream host.  The
\* connections of the stream pool are stream connections (*net.TCPConn) or,
\* as those NewTCPPool dials, not; those of the datagram pool are not.
InitProxyWith(kinds, types) ==
    /\ qtypes = types
    /\ pool \in { [ tcp |-> [ kind |-> k, idle |-> TCPInitial, out |-> 0 ],
                    udp |-> [ kind |-> ConnKind(NewUDPPoolNetwork), idle |-> UDPInitial,
                              out |-> 0 ] ]
                  : k \in kinds }
    /\ cl = [ c \in Callers |-> NoCall ]
    /\ group = << >>
    /\ calls = << >>
    /\ msgs = << >>
    /\ overflow = FALSE

InitProxyIdle == InitProxyWith({ ConnKind(NewTCPPoolNetwork) }, ProxyQtypes)

\* A connection on which nothing has been written or read.
InitCodecWith(kinds) ==
    /\ ckind \in kinds
    /\ wr = NoWrite
    /\ sent = << >>
    /\ unread = << >>
    /\ rd = NoRead

InitCodecIdle == InitCodecWith({ "stream" })

\* The dispatcher of a server constructed with any registry.
InitDispatch ==
    /\ zones \in Registries
    /\ req = NoReq
    /\ beh = NoBeh
    /\ invoked = <<>>
    /\ written = <<>>
    /\ alive = TRUE
    /\ faulted = FALSE
    /\ InitNewIdle
    /\ InitStopIdle
    /\ InitProxyIdle
    /\ InitCodecIdle

NextDispatch == ServeDNS \/ WorkerDone

SpecDispatch == InitDispatch /\ [][NextDispatch]_vars

\* The constructor.
InitNew ==
    InitDispatchIdle /\ InitNewIdle /\ InitStopIdle /\ InitProxyIdle /\ InitCodecIdle

NextNew == New \/ NewDiscard

SpecNew == InitNew /\ [][NextNew]_vars

\* The life of one server from construction to shutdown.
InitStop ==
    /\ InitDispatchIdle /\ InitNewIdle /\ InitStopWith({ "posix", "windows" })
    /\ InitProxyIdle /\ InitCodecIdle

NextStop ==
    \/ \E n \in Nets : Listen(n)
    \/ \E n \in Nets : ListenFails(n)
    \/ \E n \in Nets : Serve(n)
    \/ \E n \in Nets : ServeReturns(n)
    \/ \E n \in Nets : Accept(n)
    \/ ConnDone
    \/ \E k \in Stoppers : StopCall(k)
    \/ \E k \in Stoppers : StopGoDone(k)
    \/ \E k \in Stoppers : StopGoWait(k)
    \/ \E k \in Stoppers : TimerFires(k)
    \/ \E k \in Stoppers : StopSelect(k)
    \/ \E k \in Stoppers : StopClose(k)
    \/ \E n \in Nets : AddrLock(n)
    \/ LocalAddr
    \/ LocalAddrPacket

SpecStop == InitStop /\ [][NextStop]_vars

\* The proxy client with concurrent callers.  The stream pool of the host is
\* the one NewTCPPool builds, or one whose dialer dials "tcp".
InitProxy ==
    /\ InitDispatchIdle /\ InitNewIdle /\ InitStopIdle
    /\ InitProxyWith({ ConnKind("tcp"), ConnKind(NewTCPPoolNetwork) }, ProxyQtypes)
    /\ InitCodecIdle

NextProxy ==
    \/ \E c \in Callers : PoolGet(c)
    \/ \E c \in Callers : DoEnter(c)
    \/ \E c \in Callers : ExecWrite(c)
    \/ \E c \in Callers : ExecRead(c)
    \/ \E c \in Callers : ExecReadOther(c)
    \/ \E c \in Callers : ExecDelete(c)
    \/ \E c \in Callers : WaitDone(c)
    \/ \E c \in Callers : Post(c)
    \/ \E c \in Callers : UseReply(c)

SpecProxy == InitProxy /\ [][NextProxy]_vars

\* The proxy client with callers whose questions also have types without a
\* mnemonic.
InitCoalesce ==
    /\ InitDispatchIdle /\ InitNewIdle /\ InitStopIdle
    /\ InitProxyWith({ ConnKind("tcp"), ConnKind(NewTCPPoolNetwork) },
                     ProxyQtypes \cup UnknownQtypes)
    /\ InitCodecIdle

SpecCoalesce == InitCoalesce /\ [][NextProxy]_vars

\* One write and one read on a connection of either kind.
InitCodec ==
    /\ InitDispatchIdle /\ InitNewIdle /\ InitStopIdle /\ InitProxyIdle
    /\ InitCodecWith({ "stream", "datagram" })

NextCodec ==
    \/ WriteMsg
    \/ Write
    \/ ReadMsg
    \/ ReadCall
    \/ Read
    \/ tcpMsgLen
    \/ tcpRead

SpecCodec == InitCodec /\ [][NextCodec]_vars

-----------------------------------------------------------------------------
(* Properties of the dispatcher, checked under SpecDispatch.               *)

\* ASCII case folding, as the DNS compares names.
Fold(c) == IF c = "A" THEN "a" ELSE IF c = "B" THEN "b" ELSE c
FoldName(s) == [ i \in 1..Len(s) |-> Fold(s[i]) ]

\* The names that are label-boundary suffixes of a name given by its labels,
\* case folded: the name itself, every name left by dropping leading labels,
\* and the root.
LabelSuffixes(name) ==
    { FoldName(Wire(SubSeq(name, k, Len(name)))) : k \in 1..(Len(name) + 1) }

RegisteredSuffixes(zs, name) == LabelSuffixes(name) \cap DOMAIN zs

Longest(S) == CHOOSE z \in S : \A y \in S : Len(y) <= Len(z)

\* A query that passed the extension-version check has been dispatched.
Routed == req # NoReq /\ req.ednsOK

DispatcherWrites == SelectSeq(written, LAMBDA x : x.by = "dispatcher")

\* C1: a query that is not of the delegation-signer type (and is not
\* rejected for its extension version) is handed to the chain of the longest
\* registered zone that is a label-boundary suffix of its name, compared
\* case-insensitively, and to that chain only; when no registered zone is a
\* label suffix of the name, no chain is invoked.
C1_LongestSuffixWins ==
    (Routed /\ req.qtype # TypeDS) =>
        LET S == RegisteredSuffixes(zones, req.name) IN
        /\ S # {} => invoked = << zones[Longest(S)] >>
        /\ S = {} => invoked = << >>

\* C1, witness: "ab.A.b." with "a.b." and "b." registered went to "a.b.".
C1_Witness ==
    /\ Routed /\ req.qtype # TypeDS
    /\ req.name = << <<"a", "b">>, <<"A">>, <<"b">> >>
    /\ { ZoneAB, ZoneB } \subseteq DOMAIN zones
    /\ invoked = << ZoneAB >>

\* C2: a delegation-signer query whose name is a registered zone apex, with
\* a shorter registered suffix (the parent zone), is served by the chain of
\* the parent zone.
C2_DSRoutedToParent ==
    LET apex    == FoldName(Wire(req.name))
        parents == RegisteredSuffixes(zones, req.name) \ { apex }
    IN  (Routed /\ req.qtype = TypeDS /\ apex \in DOMAIN zones /\ parents # {})
            => invoked = << zones[Longest(parents)] >>

\* C3: when no registered zone other than the root is a label suffix of the
\* query name, the root entry's chain is invoked if the root is registered;
\* if it is not, no chain is invoked and exactly one response, REFUSED, is
\* written.
C3_RootOrRefused ==
    (Routed /\ RegisteredSuffixes(zones, req.name) \ { Root } = {}) =>
        IF Root \in DOMAIN zones
        THEN invoked = << zones[Root] >>
        ELSE /\ invoked = << >>
             /\ written = << [ by |-> "dispatcher", rcode |-> RcodeRefused ] >>

\* C3, witness: a query for "A.b." with only "a." registered was refused.
C3_Witness ==
    /\ Routed
    /\ req.name = << <<"A">>, <<"b">> >>
    /\ DOMAIN zones = { ZoneA }
    /\ invoked = << >>
    /\ written = << [ by |-> "dispatcher", rcode |-> RcodeRefused ] >>

ChainFaulted == req # NoReq /\ beh # NoBeh /\ beh.outcome = Panic

\* C4, as claimed: a fault of a chain member never leaves ServeDNS, and the
\* server-failure response is the only response written for the query.
C4_ServFailOnlyResponse ==
    /\ alive
    /\ ChainFaulted =>
          written = << [ by |-> "dispatcher", rcode |-> RcodeServerFailure ] >>

\* C4, amended: a fault of a chain member never leaves ServeDNS; the
\* dispatcher writes exactly one response for the query, SERVFAIL, after
\* whatever the member wrote before it faulted, so SERVFAIL is the only
\* response exactly when the member had written nothing.
C4_FaultBecomesServFail ==
    /\ alive
    /\ ChainFaulted =>
          /\ DispatcherWrites = << [ by |-> "dispatcher", rcode |-> RcodeServerFailure ] >>
          /\ written = (IF beh.wrote THEN << ChainAnswer >> ELSE << >>) \o DispatcherWrites

\* C4, witness: after an earlier query's fault, the server dispatched a
\* query whose chain faulted too, and answered it with SERVFAIL.
C4_Witness ==
    /\ faulted /\ alive /\ ChainFaulted /\ ~beh.wrote
    /\ written = << [ by |-> "dispatcher", rcode |-> RcodeServerFailure ] >>

UnsafeRcodes == { "SERVFAIL", "REFUSED", "FORMERR", "NOTIMP" }

ChainReturned == req # NoReq /\ beh # NoBeh /\ beh.outcome # Panic

\* C5: when the chain returns a code, the dispatcher writes a response with
\* that code if and only if the code is SERVFAIL, REFUSED, FORMERR or NOTIMP;
\* so if the chain wrote its own response exactly when its code is outside
\* that set, one response is written in all.
C5_DispatcherWritesUnsafeCodes ==
    ChainReturned =>
        /\ DispatcherWrites =
              IF beh.outcome \in UnsafeRcodes
              THEN << [ by |-> "dispatcher", rcode |-> beh.outcome ] >> ELSE << >>
        /\ (beh.wrote <=> beh.outcome \notin UnsafeRcodes) => Len(written) = 1

\* C5, witness: a chain returned FORMERR without writing, and the dispatcher
\* wrote the FORMERR response.
C5_Witness ==
    /\ ChainReturned /\ beh.outcome = RcodeFormatError /\ ~beh.wrote
    /\ written = << [ by |-> "dispatcher", rcode |-> RcodeFormatError ] >>

-----------------------------------------------------------------------------
(* Properties of the constructor, checked under SpecNew.                   *)

HasDuplicateHost(configs) ==
    \E i, j \in 1..Len(configs) : i < j /\ configs[i].Host = configs[j].Host

\* C6: when two configurations of the list have the same host, New returns
\* an error and no server, with no registry, wherever the two stand in the
\* list and whatever the other configurations are.
C6_DuplicateHostFails ==
    (newArgs.called /\ HasDuplicateHost(newArgs.configs)) =>
        /\ newRet.err
        /\ ~newRet.srv
        /\ newRet.zones = << >>

\* C6, witness: the first and the third of three configurations share a
\* host, the second has another one, and New failed.
C6_Witness ==
    /\ newArgs.called
    /\ Len(newArgs.configs) = 3
    /\ newArgs.configs[1].Host = newArgs.configs[3].Host
    /\ newArgs.configs[2].Host # newArgs.configs[1].Host
    /\ newRet.err /\ ~newRet.srv

\* C22: when the hosts of the list are pairwise distinct, New returns a
\* server and no error, and its registry maps every configured host to the
\* zone built from that host's own configuration.
C22_DistinctHostsAllServed ==
    (newArgs.called /\ ~HasDuplicateHost(newArgs.configs)) =>
        /\ newRet.srv /\ ~newRet.err
        /\ \A i \in 1..Len(newArgs.configs) :
              /\ newArgs.configs[i].Host \in DOMAIN newRet.zones
              /\ newRet.zones[newArgs.configs[i].Host] = BuildZone(newArgs.configs[i])

-----------------------------------------------------------------------------
(* Properties of shutdown, checked under SpecStop.                         *)

\* C7: off Windows, a call of Stop has not returned while connections are
\* still in flight and its grace period has not elapsed.
C7_StopWaitsForConnections ==
    \A k \in Stoppers :
        (goos # "windows" /\ stopPc[k] = "returned") => (inflight = 0 \/ elapsed[k])

\* C21: no call of Stop faults, and a call of Stop that has returned has
\* left no listener or packet connection open and the handle lock free of
\* itself.
C21_StopClosesAndReturns ==
    \A k \in Stoppers :
        /\ stopPc[k] # "faulted"
        /\ stopPc[k] = "returned"
              => (mu # "stop" /\ \A n \in Nets : handle[n] # "open")

\* C23: the counter of the wait group never goes below zero.
C23_BarrierNeverNegative == dnsWg >= 0 /\ ~crashed

\* C17: a call of LocalAddr or LocalAddrPacket that has read the address
\* has returned and has released the lock: it neither holds s.m nor is it
\* blocked on it.
C17_AddressQueriesReleaseLock ==
    \A n \in Nets :
        addrPc[n] \notin { "idle", "locked" }
            => (addrPc[n] # "blocked" /\ mu # AddrHolder[n])

-----------------------------------------------------------------------------
(* Properties of the proxy client, checked under SpecProxy.                *)

Question(r) == << r.name, r.qtype, r.qclass >>

\* The caller is running fn: it is about to write the request, or has
\* written it and not yet read the reply.
Exchanging(c) == cl[c].pc \in { "write", "read" }

\* The caller has the result of Exchange in hand.
HasResult(c) == cl[c].pc \in { "post", "returned", "used" }

Coalesced(w) == HasResult(w) /\ calls[cl[w].call].owner # w

\* C8: no two callers are exchanging the same question (name, type, class)
\* with the upstream at the same time, and a caller that waited on another
\* caller's exchange has that caller's result: the same reply and error.
C8_OneExchangePerKey ==
    /\ \A c1, c2 \in Callers :
          (c1 # c2 /\ Exchanging(c1) /\ Exchanging(c2))
              => Question(cl[c1].r) # Question(cl[c2].r)
    /\ \A w \in Callers :
          Coalesced(w) =>
              LET e == calls[cl[w].call].owner IN
              /\ cl[e].pc \in { "delete", "post", "returned", "used" }
              /\ cl[w].val = cl[e].val
              /\ cl[w].err = cl[e].err

\* C8, witness: two callers asked the same question, one exchange was made,
\* and the caller that waited holds the reply the other one read.
C8_Witness ==
    \E e, w \in Callers :
        /\ e # w
        /\ Coalesced(w) /\ calls[cl[w].call].owner = e
        /\ Question(cl[w].r) = Question(cl[e].r)
        /\ cl[w].val # NilMsg /\ cl[w].val = cl[e].val
        /\ Len(calls) = 1 /\ Len(msgs) = 1

\* C9: a caller that reads the reply ServeDNS returned to it finds its own
\* request ID in the reply's header.
C9_ReplyCarriesOwnId ==
    \A c \in Callers : cl[c].pc = "used" => cl[c].seen = cl[c].r.Id

\* C10: when the reply read for an exchange arrived with a transaction ID
\* other than that of the request written, every caller served by that
\* exchange is returned an error and no reply.
C10_IdMismatchIsHardError ==
    \A c \in Callers :
        (/\ cl[c].pc \in { "returned", "used" }
         /\ calls[cl[c].call].val # NilMsg
         /\ msgs[calls[cl[c].call].val].WireId # cl[calls[cl[c].call].owner].r.Id)
            => (cl[c].reply = NilMsg /\ cl[c].reterr # NoErr)

C12_SameTransportUpstream ==
    \A c \in Callers :
        (Exchanging(c) /\ cl[c].co # "nil")
            => (cl[c].r.proto = "tcp" <=> cl[c].co = ConnKind("tcp"))

\* C15: when no call of ServeDNS is in progress, no connection of either
\* pool is checked out.
C15_BorrowedConnectionsGoBack ==
    (\A c \in Callers : cl[c].pc \in { "idle", "returned", "used" })
        => \A p \in Protos : pool[p].out = 0

\* C16: a caller whose pool could not supply a connection does not fault
\* in an exchange on the missing connection; what it is returned is an error
\* and no reply.
C16_DialFailureIsErrorResult ==
    \A c \in Callers :
        cl[c].co = "nil" =>
            /\ cl[c].pc # "faulted"
            /\ cl[c].pc \in { "returned", "used" }
                  => (cl[c].reply = NilMsg /\ cl[c].reterr # NoErr)

\* strings.ToLower on the names forwarded.
ToLower == [ n \in ProxyNames |-> IF n = "Example.org." THEN "example.org." ELSE n ]

FoldedQuestion(r) == << ToLower[r.name], r.qtype, r.qclass >>

\* C18: two callers whose questions differ at most in the letter case of the
\* name have the same dedup key and never exchange with the upstream at the
\* same time.
C18_KeyIgnoresCase ==
    \A c1, c2 \in Callers :
        (/\ c1 # c2
         /\ cl[c1].pc \notin { "idle" } /\ cl[c2].pc \notin { "idle" }
         /\ FoldedQuestion(cl[c1].r) = FoldedQuestion(cl[c2].r))
            => (/\ DedupKey(cl[c1].r) = DedupKey(cl[c2].r)
                /\ ~(Exchanging(c1) /\ Exchanging(c2)))

\* C24: a caller that waited on another caller's exchange and holds its
\* reply asked the same question: the same name, type and class.
C24_CoalescedOnlyOnSameQuestion ==
    \A w \in Callers :
        (Coalesced(w) /\ cl[w].val # NilMsg)
            => Question(cl[w].r) = Question(cl[calls[cl[w].call].owner].r)

-----------------------------------------------------------------------------
(* Properties of the wire codec, checked under SpecCodec.                  *)

\* C13: what WriteMsg has put on a stream connection is the 2-byte
\* big-endian length of the packed message followed by the packed message,
\* and a ReadMsg of that stream that returns without an error returns the
\* bytes of the message written.
C13_StreamRoundTrip ==
    (ckind = "stream" /\ wr.op = "WriteMsg" /\ wr.err = NoErr)
        => /\ sent = BCat(PutUint16(BLen(wr.out)), wr.out)
           /\ (rd.entry = "ReadMsg" /\ rd.pc = "done" /\ rd.err = NoErr)
                 => rd.ret = wr.out

\* C14: a call of WriteMsg or Write whose message is longer than MaxMsgSize
\* returns an error and has written nothing.
C14_OversizeWriteFails ==
    (wr.pc = "done" /\ BLen(wr.out) > MaxMsgSize)
        => (wr.err # NoErr /\ sent = << >>)

\* C19: on a stream connection that carries a message framed by Write, a
\* ReadMsg that returns bytes without an error returns exactly as many as
\* the length prefix announced, the bytes of that message.
C19_ExactLengthOrError ==
    (/\ ckind = "stream" /\ wr.op = "Write" /\ wr.err = NoErr
     /\ rd.entry = "ReadMsg" /\ rd.pc = "done" /\ rd.err = NoErr)
        => (BLen(rd.ret) = rd.l /\ rd.ret = wr.out)

\* C20: on a datagram connection a read never calls Read more than once
\* and never exhausts the stack.
C20_DatagramReadTerminates ==
    ckind = "datagram" => (rd.depth <= 1 /\ rd.pc # "overflow")

====
